---- MODULE Spec2Model ----
(***************************************************************************)
(* A model of csv2api: the CsvLoader row store and its file watcher       *)
(* (src/src/csvLoader.js), the query utilities searchCsv, filterColumns,   *)
(* paginateCsv, getRowById, sortCsv, getUniqueValues and getColumnStats    *)
(* (src/src/index.js, the queryUtils part), the dataset object of          *)
(* createDataset and the HTTP routes of createApiRoutes (src/src/cli.js).  *)
(*                                                                         *)
(* The loader and the watcher are state machines over the callbacks of     *)
(* the event loop.  The query utilities are pure functions: each has its   *)
(* own specification whose Init draws the arguments from bounded sets and  *)
(* whose single action applies the function.                               *)
(***************************************************************************)
EXTENDS Integers, Sequences, FiniteSets, TLC

VARIABLES
    fs,         \* the file system: path -> Missing or the rows the file parses to
    data,       \* CsvLoader.data: a reference to an array on the heap
    columns,    \* CsvLoader.columns: sequence of column names
    filePath,   \* CsvLoader.filePath: NoPath (null) or a path
    heap,       \* array reference -> contents (a sequence of rows)
    tasks,      \* load id -> the state of that call of loadCsv
    nextTask,   \* the id the next call of loadCsv gets
    published,  \* the array references CsvLoader.data has ever held
    held,       \* the array reference a reader last got from getData()
    crashed,    \* an exception reached the top of the event loop
    qin,        \* the arguments of the query function under check
    qout,       \* its result
    qpc,        \* "idle": no query; "call" before the function is applied, "done" after
    watcher,    \* CsvLoader.watcher: NoPath (null) or the path the watcher is on
    onDataChange, \* CsvLoader.onDataChange: NoCallback (null) or a callback
    reloads,    \* load id -> the position of the 'change' handler that made the call
    calls,      \* the invocations of the callback, in order
    logged,     \* the loads whose error the 'change' handler has logged
    pendingWrites, \* the raw write events the watcher has seen and not yet signalled
    quiet,      \* the time the file has been quiet since the last pending raw write event, in poll intervals
    signalled   \* the number of raw write events the last 'change' event stood for

watchVars == <<watcher, onDataChange, reloads, calls, logged, pendingWrites, quiet, signalled>>

vars == <<fs, data, columns, filePath, heap, tasks, nextTask, published, held, crashed, qin, qout, qpc,
          watcher, onDataChange, reloads, calls, logged, pendingWrites, quiet, signalled>>

(***************************************************************************)
(* Cells and rows.  A cell is a string (a sequence of one-character        *)
(* strings), a number, or null; a key a row does not have reads as         *)
(* undefined.  A row is an ordered mapping: a sequence of key/value pairs  *)
(* with distinct keys, in insertion order, as a JavaScript object is.      *)
(***************************************************************************)
Str(s) == [t |-> "str", s |-> s, n |-> 0]
Num(n) == [t |-> "num", s |-> <<>>, n |-> n]
Null == [t |-> "null", s |-> <<>>, n |-> 0]
Undefined == [t |-> "undefined", s |-> <<>>, n |-> 0]

Pair(k, v) == [k |-> k, v |-> v]

\* Object.keys(row)
ObjectKeys(row) == [i \in 1..Len(row) |-> row[i].k]

\* Object.values(row)
ObjectValues(row) == [i \in 1..Len(row) |-> row[i].v]

\* row.hasOwnProperty(key)
HasOwnProperty(row, key) == \E i \in 1..Len(row) : row[i].k = key

\* row[key]: undefined for a key the row does not have
Get(row, key) ==
    IF HasOwnProperty(row, key)
    THEN row[CHOOSE i \in 1..Len(row) : row[i].k = key].v
    ELSE Undefined

\* value === null || value === undefined
IsNullish(v) == v.t = "null" \/ v.t = "undefined"

Range(s) == {s[i] : i \in 1..Len(s)}

(***************************************************************************)
(* The loader.                                                             *)
(***************************************************************************)
MaxLoads == 2

Paths == {"p1", "p2"}
NoPath == "null"
Missing == [exists |-> FALSE, rows |-> <<>>]
File(rows) == [exists |-> TRUE, rows |-> rows]

FileA == << <<Pair("a", Str(<<"1">>)), Pair("b", Str(<<"a">>))>>,
            <<Pair("a", Str(<<"0">>))>> >>
FileB == << <<Pair("b", Str(<<"A">>)), Pair("c", Str(<<>>))>> >>
Contents == {File(FileA), File(FileB)}

TaskIds == 1..MaxLoads
Refs == 0..MaxLoads

IdleTask == [st |-> "idle", path |-> NoPath, ref |-> 0, cols |-> <<>>,
             pos |-> 0, content |-> <<>>, installed |-> FALSE, prior |-> 0]

\* fs.existsSync(path), and the condition for fs.statSync(path) to return
ExistsSync(path) == path \in Paths /\ fs[path].exists

\* columns.add(key) for each key of the row: a Set keeps first-insertion order
RECURSIVE AddKeys(_, _)
AddKeys(cols, keys) ==
    IF keys = <<>> THEN cols
    ELSE AddKeys(IF Head(keys) \in Range(cols) THEN cols ELSE Append(cols, Head(keys)),
                 Tail(keys))

\* `const data = []`: every call of loadCsv builds its rows in an array of its own
NewArrayReused(id) == data
NewArray(id) == id

\* the constructor
NoCallback == "null"
Callbacks == {"cb"}

WatcherInit ==
    /\ watcher = NoPath
    /\ onDataChange = NoCallback
    /\ reloads = [id \in TaskIds |-> "none"]
    /\ calls = <<>>
    /\ logged = {}
    /\ pendingWrites = 0
    /\ quiet = 0
    /\ signalled = 0

LoaderInit ==
    /\ WatcherInit
    /\ data = 0
    /\ columns = <<>>
    /\ filePath = NoPath
    /\ heap = [r \in Refs |-> <<>>]
    /\ tasks = [id \in TaskIds |-> IdleTask]
    /\ nextTask = 1
    /\ published = {0}
    /\ held = 0
    /\ crashed = FALSE

\* loadCsv up to the return of the promise: filePath is assigned first, a file that
\* does not exist throws (the async function rejects), otherwise the stream is opened
LoadStartStep(p) ==
    /\ ~crashed
    /\ nextTask <= MaxLoads
    /\ filePath' = p
    /\ nextTask' = nextTask + 1
    /\ IF ~ExistsSync(p)
       THEN /\ tasks' = [tasks EXCEPT ![nextTask] =
                            [IdleTask EXCEPT !.st = "rejected", !.path = p, !.prior = data]]
            /\ heap' = heap
       ELSE /\ tasks' = [tasks EXCEPT ![nextTask] =
                            [IdleTask EXCEPT !.st = "streaming", !.path = p,
                                             !.ref = NewArray(nextTask),
                                             !.content = fs[p].rows, !.prior = data]]
            /\ heap' = [heap EXCEPT ![NewArray(nextTask)] = <<>>]
    /\ UNCHANGED <<fs, data, columns, published, held, crashed, qin, qout, qpc>>

LoadStart(p) == LoadStartStep(p) /\ UNCHANGED watchVars

\* the 'data' handler: data.push(row); every key of the row is added to columns
LoadData(id) ==
    /\ ~crashed
    /\ tasks[id].st = "streaming"
    /\ tasks[id].pos < Len(tasks[id].content)
    /\ LET row == tasks[id].content[tasks[id].pos + 1] IN
        /\ heap' = [heap EXCEPT ![tasks[id].ref] = Append(@, row)]
        /\ tasks' = [tasks EXCEPT ![id].pos = @ + 1,
                                  ![id].cols = AddKeys(@, ObjectKeys(row))]
    /\ UNCHANGED <<fs, data, columns, filePath, nextTask, published, held, crashed, qin, qout, qpc, watchVars>>

\* what the 'end' handler assigns to this.columns: Array.from(columns)
EndColumnsStale(id) == columns

EndColumns(id) == tasks[id].cols

\* the 'end' handler: both fields are assigned in one callback, then
\* fs.statSync(this.filePath) runs; if it throws, the exception leaves the handler
\* uncaught, after the assignments, and the promise is never settled
LoadEndStep(id) ==
    /\ ~crashed
    /\ tasks[id].st = "streaming"
    /\ tasks[id].pos = Len(tasks[id].content)
    /\ data' = tasks[id].ref
    /\ columns' = EndColumns(id)
    /\ published' = published \cup {tasks[id].ref}
    /\ IF ExistsSync(filePath)
       THEN /\ tasks' = [tasks EXCEPT ![id].st = "resolved", ![id].installed = TRUE]
            /\ crashed' = FALSE
       ELSE /\ tasks' = [tasks EXCEPT ![id].st = "uncaught", ![id].installed = TRUE]
            /\ crashed' = TRUE
    /\ UNCHANGED <<fs, filePath, heap, nextTask, held, qin, qout, qpc>>

LoadEnd(id) == LoadEndStep(id) /\ UNCHANGED watchVars

\* the 'error' handler, attached to the parser stream that pipe() returns: reject
LoadParseErrorStep(id) ==
    /\ ~crashed
    /\ tasks[id].st = "streaming"
    /\ tasks' = [tasks EXCEPT ![id].st = "rejected"]
    /\ UNCHANGED <<fs, data, columns, filePath, heap, nextTask, published, held, crashed, qin, qout, qpc>>

LoadParseError(id) == LoadParseErrorStep(id) /\ UNCHANGED watchVars

\* an 'error' of the file stream itself: pipe() does not forward it and the file
\* stream has no 'error' listener, so it is thrown from the event loop
LoadReadError(id) ==
    /\ ~crashed
    /\ tasks[id].st = "streaming"
    /\ tasks' = [tasks EXCEPT ![id].st = "uncaught"]
    /\ crashed' = TRUE
    /\ UNCHANGED <<fs, data, columns, filePath, heap, nextTask, published, held, qin, qout, qpc, watchVars>>

\* getData(): a reader obtains the reference the loader holds now
GetData ==
    /\ ~crashed
    /\ held # data
    /\ held' = data
    /\ UNCHANGED <<fs, data, columns, filePath, heap, tasks, nextTask, published, crashed, qin, qout, qpc, watchVars>>

\* the environment rewrites or deletes a file
FsWrite(p, c) ==
    /\ ~crashed
    /\ fs[p] # c
    /\ fs' = [fs EXCEPT ![p] = c]
    /\ UNCHANGED <<data, columns, filePath, heap, tasks, nextTask, published, held, crashed, qin, qout, qpc, watchVars>>

FsUnlink(p) ==
    /\ ~crashed
    /\ fs[p].exists
    /\ fs' = [fs EXCEPT ![p] = Missing]
    /\ UNCHANGED <<data, columns, filePath, heap, tasks, nextTask, published, held, crashed, qin, qout, qpc, watchVars>>

NoQuery == [op |-> "none"]

Init ==
    /\ LoaderInit
    /\ fs \in [Paths -> Contents \cup {Missing}]
    /\ qin = NoQuery
    /\ qout = NoQuery
    /\ qpc = "idle"

Next ==
    \/ \E p \in Paths : LoadStart(p)
    \/ \E id \in TaskIds : LoadData(id)
    \/ \E id \in TaskIds : LoadEnd(id)
    \/ \E id \in TaskIds : LoadParseError(id)
    \/ \E id \in TaskIds : LoadReadError(id)
    \/ GetData
    \/ \E p \in Paths, c \in Contents : FsWrite(p, c)
    \/ \E p \in Paths : FsUnlink(p)

Spec == Init /\ [][Next]_vars

(***************************************************************************)
(* JavaScript conversions the query utilities use.                         *)
(***************************************************************************)
UpperCase == <<"A", "B", "C", "D", "E", "F", "G", "H", "I", "J", "K", "L", "M",
               "N", "O", "P", "Q", "R", "S", "T", "U", "V", "W", "X", "Y", "Z">>
LowerCase == <<"a", "b", "c", "d", "e", "f", "g", "h", "i", "j", "k", "l", "m",
               "n", "o", "p", "q", "r", "s", "t", "u", "v", "w", "x", "y", "z">>
Digits == <<"0", "1", "2", "3", "4", "5", "6", "7", "8", "9">>

LowerChar(c) ==
    IF \E i \in 1..Len(UpperCase) : UpperCase[i] = c
    THEN LowerCase[CHOOSE i \in 1..Len(UpperCase) : UpperCase[i] = c]
    ELSE c

\* s.toLowerCase()
ToLowerCase(s) == [i \in 1..Len(s) |-> LowerChar(s[i])]

\* the decimal digits of a natural number
RECURSIVE NatToString(_)
NatToString(n) ==
    IF n < 10 THEN <<Digits[n + 1]>>
    ELSE Append(NatToString(n \div 10), Digits[(n % 10) + 1])

\* String(value)
StringOf(v) ==
    CASE v.t = "str" -> v.s
      [] v.t = "num" -> IF v.n < 0 THEN <<"-">> \o NatToString(0 - v.n) ELSE NatToString(v.n)
      [] v.t = "null" -> <<"n", "u", "l", "l">>
      [] OTHER -> <<"u", "n", "d", "e", "f", "i", "n", "e", "d">>

\* s.includes(t)
Includes(s, t) ==
    \E i \in 0..(Len(s) - Len(t)) : SubSeq(s, i + 1, i + Len(t)) = t

\* !value for a string argument that may be absent
IsFalsyString(v) == IsNullish(v) \/ (v.t = "str" /\ v.s = <<>>)

(***************************************************************************)
(* searchCsv                                                               *)
(***************************************************************************)
\* the callback of Object.values(row).some(...), from value number i on
RECURSIVE SomeValueMatchesNoNullTest(_, _, _)
SomeValueMatchesNoNullTest(values, term, i) ==
    IF i > Len(values) THEN FALSE
    ELSE IF Includes(ToLowerCase(StringOf(values[i])), term) THEN TRUE
    ELSE SomeValueMatchesNoNullTest(values, term, i + 1)

RECURSIVE SomeValueMatchesFrom(_, _, _)
SomeValueMatchesFrom(values, term, i) ==
    IF i > Len(values) THEN FALSE
    ELSE IF ~IsNullish(values[i]) /\ Includes(ToLowerCase(StringOf(values[i])), term) THEN TRUE
    ELSE SomeValueMatchesFrom(values, term, i + 1)

SomeValueMatches(values, term) == SomeValueMatchesFrom(values, term, 1)

\* data.filter(row => ...) with the lower-cased term
RECURSIVE SearchFilter(_, _)
SearchFilter(rows, term) ==
    IF rows = <<>> THEN <<>>
    ELSE IF SomeValueMatches(ObjectValues(Head(rows)), term)
         THEN <<Head(rows)>> \o SearchFilter(Tail(rows), term)
         ELSE SearchFilter(Tail(rows), term)

searchCsv(rows, searchTerm) ==
    IF IsFalsyString(searchTerm) \/ Len(rows) = 0 THEN rows
    ELSE SearchFilter(rows, ToLowerCase(searchTerm.s))

(***************************************************************************)
(* paginateCsv                                                             *)
(***************************************************************************)
NaN == [nan |-> TRUE, n |-> 0]
Number(n) == [nan |-> FALSE, n |-> n]

IsDigit(c) == \E i \in 1..Len(Digits) : Digits[i] = c
DigitValue(c) == (CHOOSE i \in 1..Len(Digits) : Digits[i] = c) - 1

\* the longest prefix of s made of digits
RECURSIVE DigitPrefix(_)
DigitPrefix(s) ==
    IF s = <<>> \/ ~IsDigit(Head(s)) THEN <<>>
    ELSE <<Head(s)>> \o DigitPrefix(Tail(s))

\* the value of a sequence of digits
RECURSIVE DigitsValue(_)
DigitsValue(s) ==
    IF s = <<>> THEN 0
    ELSE 10 * DigitsValue(SubSeq(s, 1, Len(s) - 1)) + DigitValue(s[Len(s)])

\* parseInt(value): the argument is converted to a string, then an optional sign
\* and the leading digits are read; NaN when there is no digit
ParseInt(v) ==
    LET s == StringOf(v)
        neg == s # <<>> /\ Head(s) = "-"
        body == IF neg THEN Tail(s) ELSE s
        ds == DigitPrefix(body)
    IN  IF ds = <<>> THEN NaN
        ELSE Number(IF neg THEN 0 - DigitsValue(ds) ELSE DigitsValue(ds))

\* x || fallback for a number x: NaN and 0 are falsy
OrElse(x, fallback) == IF x.nan \/ x.n = 0 THEN fallback ELSE x.n

Max(a, b) == IF a >= b THEN a ELSE b
Min(a, b) == IF a <= b THEN a ELSE b

\* Math.ceil(a / b) for a >= 0 and b >= 1
CeilDiv(a, b) == IF a % b = 0 THEN a \div b ELSE (a \div b) + 1

\* array.slice(start, end) with 0 <= start
Slice(arr, start, end) ==
    LET from == Min(start, Len(arr))
        to == Min(end, Len(arr))
    IN  [i \in 1..Max(0, to - from) |-> arr[from + i]]

DefaultPage == 1
DefaultLimit == 10

\* a default parameter value replaces undefined only
WithDefault(v, d) == IF v.t = "undefined" THEN Num(d) ELSE v

PageStartIndexOffByOne(currentPage, pageLimit) == currentPage * pageLimit
PageStartIndex(currentPage, pageLimit) == (currentPage - 1) * pageLimit

PageEndIndexShort(startIndex, pageLimit, totalRows) == Min(startIndex + pageLimit - 1, totalRows)
PageEndIndex(startIndex, pageLimit, totalRows) == Min(startIndex + pageLimit, totalRows)

PageHasNextInclusive(currentPage, totalPages) == currentPage <= totalPages
PageHasNext(currentPage, totalPages) == currentPage < totalPages

\* the result for empty data: page 1 and the limit as it was given
EmptyPage(limit) ==
    [data |-> <<>>, page |-> Num(1), limit |-> limit, totalRows |-> 0, totalPages |-> 0,
     hasNext |-> FALSE, hasPrev |-> FALSE, hasIndex |-> FALSE, startIndex |-> 0, endIndex |-> 0]

paginateCsv(rows, pageArg, limitArg) ==
    LET page == WithDefault(pageArg, DefaultPage)
        limit == WithDefault(limitArg, DefaultLimit)
    IN  IF Len(rows) = 0 THEN EmptyPage(limit)
        ELSE
        LET currentPage == Max(1, OrElse(ParseInt(page), 1))
            pageLimit == Max(1, OrElse(ParseInt(limit), 10))
            totalRows == Len(rows)
            totalPages == CeilDiv(totalRows, pageLimit)
            startIndex == PageStartIndex(currentPage, pageLimit)
            endIndex == PageEndIndex(startIndex, pageLimit, totalRows)
        IN  [data |-> Slice(rows, startIndex, endIndex),
             page |-> Num(currentPage), limit |-> Num(pageLimit),
             totalRows |-> totalRows, totalPages |-> totalPages,
             hasNext |-> PageHasNext(currentPage, totalPages),
             hasPrev |-> currentPage > 1,
             hasIndex |-> TRUE, startIndex |-> startIndex + 1, endIndex |-> endIndex]

(***************************************************************************)
(* sortCsv.  Cell strings are made of spaces, digits and letters; for      *)
(* these, Number(s) is the decimal value when s, trimmed, has digits only  *)
(* (0 for the empty string) and NaN otherwise, and localeCompare of two    *)
(* lower-cased strings orders them character by character, the space       *)
(* before digits, digits before letters, a prefix before its extensions.   *)
(***************************************************************************)
AllDigits(s) == \A i \in 1..Len(s) : IsDigit(s[i])

\* s.trim()
RECURSIVE Trim(_)
Trim(s) ==
    IF s = <<>> THEN s
    ELSE IF Head(s) = " " THEN Trim(Tail(s))
    ELSE IF s[Len(s)] = " " THEN Trim(SubSeq(s, 1, Len(s) - 1))
    ELSE s

\* Number(value) for a value that is not null or undefined: white space around the
\* numeral is skipped, so a string of white space only is 0, as the empty string is
ToNumber(v) ==
    CASE v.t = "num" -> Number(v.n)
      [] v.t = "str" /\ AllDigits(Trim(v.s)) -> Number(DigitsValue(Trim(v.s)))
      [] OTHER -> NaN

CollationOrder == <<" ">> \o Digits \o LowerCase
CharRank(c) == CHOOSE i \in 1..Len(CollationOrder) : CollationOrder[i] = c

\* a.localeCompare(b): -1, 0 or 1
RECURSIVE LocaleCompare(_, _)
LocaleCompare(a, b) ==
    IF a = <<>> /\ b = <<>> THEN 0
    ELSE IF a = <<>> THEN 0 - 1
    ELSE IF b = <<>> THEN 1
    ELSE IF CharRank(Head(a)) < CharRank(Head(b)) THEN 0 - 1
    ELSE IF CharRank(Head(a)) > CharRank(Head(b)) THEN 1
    ELSE LocaleCompare(Tail(a), Tail(b))

\* the comparator's answer when aVal or bVal is null or undefined
CompareNullishFirst(aVal, bVal) == IF IsNullish(aVal) THEN 0 - 1 ELSE 1
CompareNullish(aVal, bVal) == IF IsNullish(aVal) THEN 1 ELSE 0 - 1

\* the comparator's answer when both values are numbers
CompareNumbersAscending(aNum, bNum, direction) == aNum - bNum
CompareNumbers(aNum, bNum, direction) ==
    IF direction = "desc" THEN bNum - aNum ELSE aNum - bNum

\* the comparator's answer for the strings of the two values
CompareStrings(aVal, bVal, direction) ==
    LET aStr == ToLowerCase(StringOf(aVal))
        bStr == ToLowerCase(StringOf(bVal))
    IN  IF direction = "desc" THEN LocaleCompare(bStr, aStr) ELSE LocaleCompare(aStr, bStr)

\* the function passed to sortedData.sort
SortCompare(a, b, column, direction) ==
    LET aVal == Get(a, column)
        bVal == Get(b, column)
    IN  IF IsNullish(aVal) \/ IsNullish(bVal) THEN CompareNullish(aVal, bVal)
        ELSE LET aNum == ToNumber(aVal)
                 bNum == ToNumber(bVal)
             IN  IF ~aNum.nan /\ ~bNum.nan THEN CompareNumbers(aNum.n, bNum.n, direction)
                 ELSE CompareStrings(aVal, bVal, direction)

(***************************************************************************)
(* Array.prototype.sort as Node's engine runs it on an array of fewer than *)
(* 64 elements: the leading run is found (and reversed when strictly       *)
(* descending), then every further element is placed by a binary insertion *)
(* that calls the comparator as compare(pivot, element).                   *)
(***************************************************************************)
\* the last index of the run that starts at index 1, idx being the next to look at
RECURSIVE RunEnd(_, _, _, _, _)
RunEnd(arr, idx, descending, column, direction) ==
    IF idx > Len(arr) THEN idx - 1
    ELSE LET order == SortCompare(arr[idx], arr[idx - 1], column, direction) IN
         IF (descending /\ order >= 0) \/ (~descending /\ order < 0) THEN idx - 1
         ELSE RunEnd(arr, idx + 1, descending, column, direction)

ReversePrefix(arr, n) == [i \in 1..Len(arr) |-> IF i <= n THEN arr[n + 1 - i] ELSE arr[i]]

\* the index at which the pivot goes, within arr[left..right-1] (right exclusive)
RECURSIVE InsertionPoint(_, _, _, _, _, _)
InsertionPoint(arr, pivot, left, right, column, direction) ==
    IF left >= right THEN left
    ELSE LET mid == left + ((right - left) \div 2) IN
         IF SortCompare(pivot, arr[mid], column, direction) < 0
         THEN InsertionPoint(arr, pivot, left, mid, column, direction)
         ELSE InsertionPoint(arr, pivot, mid + 1, right, column, direction)

\* arr with the element at index from moved to index to <= from
MoveTo(arr, from, to) ==
    [i \in 1..Len(arr) |->
        IF i < to \/ i > from THEN arr[i]
        ELSE IF i = to THEN arr[from]
        ELSE arr[i - 1]]

\* the binary insertion of the elements at start..Len(arr)
RECURSIVE BinaryInsertionSort(_, _, _, _)
BinaryInsertionSort(arr, start, column, direction) ==
    IF start > Len(arr) THEN arr
    ELSE LET left == InsertionPoint(arr, arr[start], 1, start, column, direction) IN
         BinaryInsertionSort(MoveTo(arr, start, left), start + 1, column, direction)

ArraySort(arr, column, direction) ==
    IF Len(arr) < 2 THEN arr
    ELSE LET descending == SortCompare(arr[2], arr[1], column, direction) < 0
             runEnd == RunEnd(arr, 3, descending, column, direction)
             run == IF descending THEN ReversePrefix(arr, runEnd) ELSE arr
         IN  BinaryInsertionSort(run, runEnd + 1, column, direction)

\* sortCsv: `!column` holds for the empty string; the rows are copied, then sorted
sortCsv(rows, column, direction) ==
    IF Len(rows) = 0 \/ column = "" THEN rows
    ELSE ArraySort(rows, column, direction)

(***************************************************************************)
(* filterColumns.  The columns argument is undefined, a string or a list   *)
(* of strings; column names and the keys of the rows it is applied to are  *)
(* sequences of characters.                                                *)
(***************************************************************************)
ColumnsString(s) == [t |-> "str", s |-> s, items |-> <<>>]
ColumnsList(items) == [t |-> "list", s |-> <<>>, items |-> items]
NoColumns == [t |-> "undefined", s |-> <<>>, items |-> <<>>]

\* s.split(','): the pieces between the commas, cur being the piece read so far
RECURSIVE SplitFrom(_, _)
SplitFrom(s, cur) ==
    IF s = <<>> THEN <<cur>>
    ELSE IF Head(s) = "," THEN <<cur>> \o SplitFrom(Tail(s), <<>>)
    ELSE SplitFrom(Tail(s), Append(cur, Head(s)))

SplitCommas(s) == SplitFrom(s, <<>>)

\* Array.isArray(columns) ? columns : columns.split(',').map(col => col.trim())
ColumnArray(cols) ==
    IF cols.t = "list" THEN cols.items
    ELSE LET pieces == SplitCommas(cols.s) IN [i \in 1..Len(pieces) |-> Trim(pieces[i])]

\* columnArray.filter(col => col && col.length > 0)
RECURSIVE ValidColumns(_)
ValidColumns(columnArray) ==
    IF columnArray = <<>> THEN <<>>
    ELSE IF Len(Head(columnArray)) > 0
         THEN <<Head(columnArray)>> \o ValidColumns(Tail(columnArray))
         ELSE ValidColumns(Tail(columnArray))

\* filteredRow[col] = value: a new key is appended, a key already there keeps its place
SetKey(row, key, value) ==
    IF HasOwnProperty(row, key)
    THEN [i \in 1..Len(row) |-> IF row[i].k = key THEN Pair(key, value) ELSE row[i]]
    ELSE Append(row, Pair(key, value))

\* the forEach over validColumns that fills filteredRow
RECURSIVE ProjectRowNullFilled(_, _, _)
ProjectRowNullFilled(row, validColumns, filteredRow) ==
    IF validColumns = <<>> THEN filteredRow
    ELSE ProjectRowNullFilled(row, Tail(validColumns),
            SetKey(filteredRow, Head(validColumns),
                   IF HasOwnProperty(row, Head(validColumns))
                   THEN Get(row, Head(validColumns)) ELSE Null))

RECURSIVE ProjectRow(_, _, _)
ProjectRow(row, validColumns, filteredRow) ==
    IF validColumns = <<>> THEN filteredRow
    ELSE ProjectRow(row, Tail(validColumns),
            IF HasOwnProperty(row, Head(validColumns))
            THEN SetKey(filteredRow, Head(validColumns), Get(row, Head(validColumns)))
            ELSE filteredRow)

filterColumns(rows, cols) ==
    IF cols.t = "undefined" \/ (cols.t = "str" /\ cols.s = <<>>) \/ Len(rows) = 0 THEN rows
    ELSE LET validColumns == ValidColumns(ColumnArray(cols)) IN
         IF Len(validColumns) = 0 THEN rows
         ELSE [i \in 1..Len(rows) |-> ProjectRow(rows[i], validColumns, <<>>)]

(***************************************************************************)
(* getRowById.  idColumn is a string, "" standing for every falsy value    *)
(* of the parameter (null, undefined, ''); the result is the row found, or *)
(* null.                                                                   *)
(***************************************************************************)
NotFound == [found |-> FALSE, row |-> <<>>]
Found(row) == [found |-> TRUE, row |-> row]

\* a === b for two results of Number(): NaN equals nothing
StrictEqualsNumber(a, b) == ~a.nan /\ ~b.nan /\ a.n = b.n

\* idColumn || Object.keys(data[0])[0]; "" when the first row has no key
ColumnToUse(rows, idColumn) ==
    IF idColumn # "" THEN idColumn
    ELSE IF Len(rows[1]) = 0 THEN ""
    ELSE ObjectKeys(rows[1])[1]

\* the predicate given to data.find
MatchesIdAsStringOnly(row, columnToUse, id) ==
    LET rowId == Get(row, columnToUse)
    IN  IF IsNullish(rowId) THEN FALSE
        ELSE StringOf(rowId) = StringOf(id)

MatchesId(row, columnToUse, id) ==
    LET rowId == Get(row, columnToUse)
    IN  IF IsNullish(rowId) THEN FALSE
        ELSE \/ StringOf(rowId) = StringOf(id)
             \/ StrictEqualsNumber(ToNumber(rowId), ToNumber(id))

\* data.find(predicate) || null
RECURSIVE FindById(_, _, _)
FindById(rows, columnToUse, id) ==
    IF rows = <<>> THEN NotFound
    ELSE IF MatchesId(Head(rows), columnToUse, id) THEN Found(Head(rows))
    ELSE FindById(Tail(rows), columnToUse, id)

getRowById(rows, id, idColumn) ==
    IF Len(rows) = 0 \/ IsNullish(id) THEN NotFound
    ELSE LET columnToUse == ColumnToUse(rows, idColumn) IN
         IF columnToUse = "" THEN NotFound
         ELSE FindById(rows, columnToUse, id)

(***************************************************************************)
(* getColumnStats.  Numbers are held in thousandths, so that cells such    *)
(* as '0.001' and the rounding to two decimals can be told apart; numerals *)
(* with more than three fraction digits are outside the model.             *)
(***************************************************************************)
Thousandths(n) == n * 1000

\* the value, in thousandths, of the fraction digits after the point
FractionValue(frac) ==
    CASE Len(frac) = 1 -> DigitsValue(frac) * 100
      [] Len(frac) = 2 -> DigitsValue(frac) * 10
      [] OTHER -> DigitsValue(frac)

\* Number(val) for a value that is not null or undefined, in thousandths: digits
\* with an optional point and fraction, white space around them skipped; '' is 0;
\* anything else is NaN
NumberOf(v) ==
    LET s == Trim(v.s) IN
    CASE v.t = "num" -> Number(Thousandths(v.n))
      [] v.t = "str" /\ AllDigits(s) -> Number(Thousandths(DigitsValue(s)))
      [] v.t = "str" /\ (\E p \in 1..Len(s) :
                            /\ s[p] = "."
                            /\ AllDigits(SubSeq(s, 1, p - 1))
                            /\ AllDigits(SubSeq(s, p + 1, Len(s)))
                            /\ Len(s) - p \in 1..3) ->
            LET p == CHOOSE p \in 1..Len(s) : s[p] = "."
            IN  Number(Thousandths(DigitsValue(SubSeq(s, 1, p - 1)))
                       + FractionValue(SubSeq(s, p + 1, Len(s))))
      [] OTHER -> NaN

\* data.map(row => row[column]).filter(present and !isNaN(Number(val))).map(Number)
RECURSIVE NumericValues(_, _)
NumericValues(rows, column) ==
    IF rows = <<>> THEN <<>>
    ELSE LET val == Get(Head(rows), column) IN
         IF ~IsNullish(val) /\ ~NumberOf(val).nan
         THEN <<NumberOf(val).n>> \o NumericValues(Tail(rows), column)
         ELSE NumericValues(Tail(rows), column)

\* values.reduce((acc, val) => acc + val, 0)
RECURSIVE SumOf(_)
SumOf(values) == IF values = <<>> THEN 0 ELSE Head(values) + SumOf(Tail(values))

\* values.sort((a, b) => a - b): the values in ascending order
RECURSIVE InsertAscending(_, _)
InsertAscending(sorted, x) ==
    IF sorted = <<>> THEN <<x>>
    ELSE IF x < Head(sorted) THEN <<x>> \o sorted
    ELSE <<Head(sorted)>> \o InsertAscending(Tail(sorted), x)

RECURSIVE SortAscending(_)
SortAscending(values) ==
    IF values = <<>> THEN <<>>
    ELSE InsertAscending(SortAscending(SubSeq(values, 1, Len(values) - 1)), values[Len(values)])

\* Math.min(...values), Math.max(...values)
RECURSIVE MinOf(_)
MinOf(values) ==
    IF Len(values) = 1 THEN values[1] ELSE Min(Head(values), MinOf(Tail(values)))

RECURSIVE MaxOf(_)
MaxOf(values) ==
    IF Len(values) = 1 THEN values[1] ELSE Max(Head(values), MaxOf(Tail(values)))

\* Math.round(x * 100) / 100 for x = num / den thousandths, den >= 1: the nearest
\* hundredth, a half rounding up
RoundDown2(num, den) == 10 * (num \div (10 * den))

Round2(num, den) == 10 * ((num + 5 * den) \div (10 * den))

\* the entry of a column with the numeric values given
StatsOf(values) ==
    LET count == Len(values)
        sum == SumOf(values)
        sorted == SortAscending(values)
    IN  [count |-> count,
         sum |-> sum,
         mean |-> Round2(sum, count),
         median |-> IF count % 2 = 0
                    THEN Round2(sorted[count \div 2] + sorted[(count \div 2) + 1], 2)
                    ELSE Round2(sorted[(count \div 2) + 1], 1),
         min |-> MinOf(values),
         max |-> MaxOf(values),
         range |-> MaxOf(values) - MinOf(values)]

\* the keys of all the rows, in first-seen order
RECURSIVE AllKeys(_)
AllKeys(rows) ==
    IF rows = <<>> THEN <<>>
    ELSE AddKeys(AllKeys(SubSeq(rows, 1, Len(rows) - 1)), ObjectKeys(rows[Len(rows)]))

ColumnsToAnalyzeEveryRow(rows, numericColumns) ==
    IF Len(numericColumns) > 0 THEN numericColumns ELSE AllKeys(rows)

\* numericColumns.length > 0 ? numericColumns : Object.keys(data[0])
ColumnsToAnalyze(rows, numericColumns) ==
    IF Len(numericColumns) > 0 THEN numericColumns ELSE ObjectKeys(rows[1])

\* the forEach over columnsToAnalyze that fills stats
RECURSIVE CollectStats(_, _, _)
CollectStats(rows, columnsToAnalyze, stats) ==
    IF columnsToAnalyze = <<>> THEN stats
    ELSE LET column == Head(columnsToAnalyze)
             values == NumericValues(rows, column)
         IN  CollectStats(rows, Tail(columnsToAnalyze),
                 IF Len(values) > 0 THEN SetKey(stats, column, StatsOf(values)) ELSE stats)

getColumnStats(rows, numericColumns) ==
    IF Len(rows) = 0 THEN <<>>
    ELSE CollectStats(rows, ColumnsToAnalyze(rows, numericColumns), <<>>)

(***************************************************************************)
(* getUniqueValues.  column is a string, "" standing for every falsy value *)
(* of the parameter.                                                       *)
(***************************************************************************)
\* uniqueSet.add(value): a Set keeps a value once, in first-insertion order
SetAddAgain(set, value) == Append(set, value)

SetAdd(set, value) == IF value \in Range(set) THEN set ELSE Append(set, value)

\* the forEach over data that fills uniqueSet
RECURSIVE CollectUnique(_, _, _)
CollectUnique(rows, column, uniqueSet) ==
    IF rows = <<>> THEN uniqueSet
    ELSE CollectUnique(Tail(rows), column,
            IF ~IsNullish(Get(Head(rows), column))
            THEN SetAdd(uniqueSet, Get(Head(rows), column))
            ELSE uniqueSet)

getUniqueValues(rows, column) ==
    IF Len(rows) = 0 \/ column = "" THEN <<>>
    ELSE CollectUnique(rows, column, <<>>)

(***************************************************************************)
(* The watcher.  startWatching puts a chokidar watcher on the file with    *)
(* awaitWriteFinish: the watcher holds back its 'change' event until the   *)
(* file has been quiet for stabilityThreshold, looking every pollInterval. *)
(* Time is counted in poll intervals since the last raw write event.  The  *)
(* 'change' handler calls loadCsv and, when the promise settles, invokes   *)
(* the callback or logs the error; the continuation of an await runs       *)
(* before any other event of the event loop, so it is part of the step     *)
(* that settles the promise.                                               *)
(***************************************************************************)
StabilityThreshold == 1000
PollInterval == 100
ThresholdPolls == StabilityThreshold \div PollInterval

MaxBurst == 2

\* startWatching(filePath, onDataChange, watch): nothing when watch is false; the
\* callback is stored, a watcher already there is closed, a new one is made
StartWatching(p, cb, watch) ==
    /\ ~crashed
    /\ watch
    /\ watcher # p \/ onDataChange # cb
    /\ onDataChange' = cb
    /\ watcher' = p
    /\ pendingWrites' = 0
    /\ quiet' = 0
    /\ UNCHANGED <<fs, data, columns, filePath, heap, tasks, nextTask, published, held, crashed,
                   qin, qout, qpc, reloads, calls, logged, signalled>>

\* the environment writes the file; a watcher on it sees a raw write event
RawWrite(p, c) ==
    /\ ~crashed
    /\ watcher = p => pendingWrites < MaxBurst
    /\ fs' = [fs EXCEPT ![p] = c]
    /\ IF watcher = p
       THEN /\ pendingWrites' = pendingWrites + 1
            /\ quiet' = 0
       ELSE UNCHANGED <<pendingWrites, quiet>>
    /\ UNCHANGED <<data, columns, filePath, heap, tasks, nextTask, published, held, crashed,
                   qin, qout, qpc, watcher, onDataChange, reloads, calls, logged, signalled>>

\* a poll interval passes without a raw write event
Tick ==
    /\ ~crashed
    /\ pendingWrites > 0
    /\ quiet < ThresholdPolls
    /\ quiet' = quiet + 1
    /\ UNCHANGED <<fs, data, columns, filePath, heap, tasks, nextTask, published, held, crashed,
                   qin, qout, qpc, watcher, onDataChange, reloads, calls, logged, pendingWrites,
                   signalled>>

\* awaitWriteFinish: the file has been quiet for the stability threshold
SettledAtFirstPoll(q) == q >= 1

Settled(q) == q >= ThresholdPolls

\* the watcher emits 'change' and the handler calls loadCsv(changedPath); for a file
\* that is not there loadCsv throws and the handler logs the error at once
ChangeEvent(p) ==
    /\ watcher = p
    /\ pendingWrites > 0
    /\ Settled(quiet)
    /\ LoadStartStep(p)
    /\ pendingWrites' = 0
    /\ quiet' = 0
    /\ signalled' = pendingWrites
    /\ IF ExistsSync(p)
       THEN /\ reloads' = [reloads EXCEPT ![nextTask] = "awaiting"]
            /\ logged' = logged
       ELSE /\ reloads' = [reloads EXCEPT ![nextTask] = "logged"]
            /\ logged' = logged \cup {nextTask}
    /\ UNCHANGED <<watcher, onDataChange, calls>>

\* the 'end' handler of a reload, then the handler of 'change' after its await:
\* if (this.onDataChange) this.onDataChange(this.data, this.columns)
ReloadEnd(id) ==
    /\ LoadEndStep(id)
    /\ IF reloads[id] = "awaiting" /\ ExistsSync(filePath)
       THEN /\ reloads' = [reloads EXCEPT ![id] = "notified"]
            /\ calls' = IF onDataChange # NoCallback
                        THEN Append(calls, [callback |-> onDataChange, data |-> data',
                                            columns |-> columns', reload |-> id])
                        ELSE calls
       ELSE UNCHANGED <<reloads, calls>>
    /\ UNCHANGED <<watcher, onDataChange, logged, pendingWrites, quiet, signalled>>

\* the parser's 'error' handler rejects, then the catch of the 'change' handler logs
ReloadParseError(id) ==
    /\ LoadParseErrorStep(id)
    /\ IF reloads[id] = "awaiting"
       THEN /\ reloads' = [reloads EXCEPT ![id] = "logged"]
            /\ logged' = logged \cup {id}
       ELSE UNCHANGED <<reloads, logged>>
    /\ UNCHANGED <<watcher, onDataChange, calls, pendingWrites, quiet, signalled>>

WatchedPaths == {"p1"}

InitWatch ==
    /\ LoaderInit
    /\ fs \in {f \in [Paths -> Contents \cup {Missing}] : \A p \in Paths \ WatchedPaths : f[p] = Missing}
    /\ qin = NoQuery
    /\ qout = NoQuery
    /\ qpc = "idle"

NextWatch ==
    \/ \E p \in WatchedPaths, cb \in Callbacks, watch \in BOOLEAN : StartWatching(p, cb, watch)
    \/ \E p \in WatchedPaths, c \in Contents : RawWrite(p, c)
    \/ \E p \in WatchedPaths : FsUnlink(p)
    \/ Tick
    \/ \E p \in WatchedPaths : ChangeEvent(p)
    \/ \E id \in TaskIds : LoadData(id)
    \/ \E id \in TaskIds : ReloadEnd(id)
    \/ \E id \in TaskIds : ReloadParseError(id)
    \/ \E id \in TaskIds : LoadReadError(id)

SpecWatch == InitWatch /\ [][NextWatch]_vars

(***************************************************************************)
(* getMetadata.  fs.statSync reads the file as it is on disk at the call;  *)
(* a rewrite gives a file a new modification time, so the versions of a    *)
(* file are told apart by their content, and its size is that of its       *)
(* content.                                                                *)
(***************************************************************************)
NoMetadata == [null |-> TRUE]

\* fs.statSync(path) for a file that exists: mtime and size
StatOf(file) == [mtime |-> file.rows, size |-> Len(file.rows)]

\* getMetadata(): null without a filePath or when statSync throws
getMetadata ==
    IF filePath = NoPath THEN NoMetadata
    ELSE IF ~ExistsSync(filePath) THEN NoMetadata
    ELSE [null |-> FALSE,
          filePath |-> filePath,
          totalRows |-> Len(heap[data]),
          totalColumns |-> Len(columns),
          columns |-> columns,
          lastModified |-> StatOf(fs[filePath]).mtime,
          fileSize |-> StatOf(fs[filePath]).size]

(***************************************************************************)
(* stopWatching, and the watcher with it: a watcher that is closed emits   *)
(* no further event; the callback stays stored, and a reload that the      *)
(* 'change' handler is awaiting goes on.                                   *)
(***************************************************************************)
\* stopWatching(): nothing without a watcher; else close it and forget it
StopWatching ==
    /\ ~crashed
    /\ watcher # NoPath
    /\ watcher' = NoPath
    /\ pendingWrites' = 0
    /\ quiet' = 0
    /\ UNCHANGED <<fs, data, columns, filePath, heap, tasks, nextTask, published, held, crashed,
                   qin, qout, qpc, onDataChange, reloads, calls, logged, signalled>>

NextStop ==
    \/ NextWatch
    \/ StopWatching

SpecStop == InitWatch /\ [][NextStop]_vars

(***************************************************************************)
(* Claims about the loader, checked under Spec.                            *)
(***************************************************************************)
Failed(id) == tasks[id].st \in {"rejected", "uncaught"}

\* C1: a reload that fails, on a loader that holds the rows of an earlier load,
\* rejects to its caller and has not replaced the rows and columns.
C1_FailedReloadRejectsAndKeepsData ==
    \A id \in TaskIds :
        (Failed(id) /\ tasks[id].prior # 0) =>
            (tasks[id].st = "rejected" /\ ~tasks[id].installed)

\* C2: no step changes the contents of an array the loader has published, and a
\* step that changes the rows or the columns installs both, those of one load that
\* has read its whole file, so that getData() then returns the new snapshot.
C2_Step ==
    /\ \A r \in published : heap'[r] = heap[r]
    /\ (data' # data \/ columns' # columns) =>
            \E id \in TaskIds :
                /\ tasks[id].st = "streaming"
                /\ data' = tasks[id].ref
                /\ heap'[data'] = tasks[id].content
                /\ columns' = tasks[id].cols

C2_AtomicSnapshotSwap == [][C2_Step]_vars

\* a reader still holds the rows of snapshot N after snapshot N+1 was installed
C2_Witness ==
    /\ held \in published
    /\ held # data
    /\ heap[held] # <<>>
    /\ heap[data] # <<>>
    /\ heap[held] # heap[data]
    /\ \E id \in TaskIds : tasks[id].st = "resolved" /\ tasks[id].ref = data

\* the keys of the rows the loader holds, and the place (row, position in the row)
\* where each appears first
C18_RowKeys == UNION {Range(ObjectKeys(heap[data][i])) : i \in 1..Len(heap[data])}
C18_FirstRow(key) ==
    CHOOSE i \in 1..Len(heap[data]) :
        /\ HasOwnProperty(heap[data][i], key)
        /\ \A j \in 1..(i - 1) : ~HasOwnProperty(heap[data][j], key)
C18_PositionInRow(key) ==
    CHOOSE p \in 1..Len(heap[data][C18_FirstRow(key)]) : heap[data][C18_FirstRow(key)][p].k = key
C18_AppearsBefore(k1, k2) ==
    \/ C18_FirstRow(k1) < C18_FirstRow(k2)
    \/ C18_FirstRow(k1) = C18_FirstRow(k2) /\ C18_PositionInRow(k1) < C18_PositionInRow(k2)

\* C18: in every state the columns of the loader are the keys of the rows it holds,
\* each once, in the order of their first appearance.
C18_ColumnsAreRowKeysInFirstSeenOrder ==
    /\ Range(columns) = C18_RowKeys
    /\ \A i \in 1..Len(columns), j \in 1..Len(columns) :
           i < j => C18_AppearsBefore(columns[i], columns[j])

\* the rows of FileA are held, and a later load has failed
C18_Witness ==
    /\ heap[data] = FileA
    /\ columns = <<"a", "b">>
    /\ \E id \in TaskIds : Failed(id) /\ tasks[id].prior = data

(***************************************************************************)
(* The query utilities are applied to arguments drawn by Init; the loader  *)
(* stays as constructed.                                                   *)
(***************************************************************************)
LoaderUnused ==
    /\ LoaderInit
    /\ fs = [p \in Paths |-> Missing]

RECURSIVE SeqsUpTo(_, _)
SeqsUpTo(S, n) ==
    IF n = 0 THEN {<<>>}
    ELSE LET shorter == SeqsUpTo(S, n - 1) IN
         shorter \cup {Append(s, x) : s \in {t \in shorter : Len(t) = n - 1}, x \in S}

MaxSearchRows == 2

SearchCells == {Null, Str(<<"N", "u">>), Str(<<"l">>), Num(10)}
SearchRowSet ==
    {<<>>} \cup {<<Pair("a", v)>> : v \in SearchCells}
           \cup {<<Pair("a", v), Pair("b", w)>> : v \in SearchCells, w \in SearchCells}
SearchTerms ==
    {Undefined, Str(<<>>), Str(<<"l">>), Str(<<"L">>), Str(<<"n", "U">>),
     Str(<<"u", "l">>), Str(<<"0">>)}

InitSearch ==
    /\ LoaderUnused
    /\ qin \in {[op |-> "search", rows |-> r, term |-> t] :
                    r \in SeqsUpTo(SearchRowSet, MaxSearchRows), t \in SearchTerms}
    /\ qout = NoQuery
    /\ qpc = "call"

CallSearch ==
    /\ qpc = "call"
    /\ qin.op = "search"
    /\ qout' = searchCsv(qin.rows, qin.term)
    /\ qpc' = "done"
    /\ UNCHANGED <<fs, data, columns, filePath, heap, tasks, nextTask, published, held, crashed, qin, watchVars>>

NextSearch == CallSearch

SpecSearch == InitSearch /\ [][NextSearch]_vars

\* the indexes of the rows of rows with a non-null cell whose text, lower-cased,
\* contains the lower-cased term
C3_Matching(rows, term) ==
    {j \in 1..Len(rows) :
        \E c \in 1..Len(rows[j]) :
            LET v == rows[j][c].v IN
            /\ v.t \notin {"null", "undefined"}
            /\ \E from \in 1..(Len(StringOf(v)) + 1), to \in 0..Len(StringOf(v)) :
                   SubSeq(ToLowerCase(StringOf(v)), from, to) = ToLowerCase(term)}

\* the n-th smallest element of a set of numbers
C3_Nth(S, n) == CHOOSE j \in S : Cardinality({k \in S : k < j}) = n - 1

\* C3: for a non-empty term, searchCsv returns exactly the matching rows, each once,
\* in their original order.
C3_SearchIsMatchingSubsequence ==
    (qpc = "done" /\ qin.op = "search" /\ qin.term.t = "str" /\ qin.term.s # <<>>) =>
        LET m == C3_Matching(qin.rows, qin.term.s) IN
        /\ Len(qout) = Cardinality(m)
        /\ \A i \in 1..Len(qout) : qout[i] = qin.rows[C3_Nth(m, i)]

\* a search that keeps one row and drops another, the dropped one having only a
\* null cell, the kept one matching only after case folding
C3_Witness ==
    /\ qpc = "done"
    /\ qin.op = "search"
    /\ qin.term = Str(<<"n", "U">>)
    /\ Len(qin.rows) = 2
    /\ qin.rows[1] = <<Pair("a", Null)>>
    /\ qout = <<qin.rows[2]>>

(***************************************************************************)
(* paginateCsv applied once (SpecPage), and a caller that fetches page 1   *)
(* and then every further page up to totalPages, with one limit, and       *)
(* concatenates the slices (SpecPageWalk).                                 *)
(***************************************************************************)
MaxPageRows == 25
MaxPageArg == 11

\* rows with the ids 1..n, as numbers
IdRows(n) == [i \in 1..n |-> <<Pair("id", Num(i))>>]

PageArgs ==
    {Undefined, Null, Str(<<"a", "b", "c">>), Str(<<"2">>), Str(<<"3", "x">>)}
        \cup {Num(k) : k \in (0 - 1)..MaxPageArg}

InitPage ==
    /\ LoaderUnused
    /\ qin \in {[op |-> "paginate", rows |-> IdRows(n), page |-> pg, limit |-> lim] :
                    n \in 0..MaxPageRows, pg \in PageArgs, lim \in PageArgs}
    /\ qout = NoQuery
    /\ qpc = "call"

CallPaginate ==
    /\ qpc = "call"
    /\ qin.op = "paginate"
    /\ qout' = paginateCsv(qin.rows, qin.page, qin.limit)
    /\ qpc' = "done"
    /\ UNCHANGED <<fs, data, columns, filePath, heap, tasks, nextTask, published, held, crashed, qin, watchVars>>

NextPage == CallPaginate

SpecPage == InitPage /\ [][NextPage]_vars

InitPageWalk ==
    /\ LoaderUnused
    /\ qin \in {[op |-> "walk", rows |-> IdRows(n), limit |-> Num(lim)] :
                    n \in 0..MaxPageRows, lim \in 1..MaxPageArg}
    /\ qout = [acc |-> <<>>, totalPages |-> 0, next |-> 1]
    /\ qpc = "call"

\* the caller fetches page 1 and learns totalPages
WalkFirst ==
    /\ qpc = "call"
    /\ qin.op = "walk"
    /\ LET r == paginateCsv(qin.rows, Num(1), qin.limit) IN
        /\ qout' = [acc |-> IF r.totalPages >= 1 THEN r.data ELSE <<>>,
                    totalPages |-> r.totalPages, next |-> 2]
    /\ qpc' = "walk"
    /\ UNCHANGED <<fs, data, columns, filePath, heap, tasks, nextTask, published, held, crashed, qin, watchVars>>

\* the caller fetches the next page and appends its slice
WalkNext ==
    /\ qpc = "walk"
    /\ qout.next <= qout.totalPages
    /\ LET r == paginateCsv(qin.rows, Num(qout.next), qin.limit) IN
        /\ qout' = [qout EXCEPT !.acc = @ \o r.data, !.next = @ + 1]
    /\ qpc' = "walk"
    /\ UNCHANGED <<fs, data, columns, filePath, heap, tasks, nextTask, published, held, crashed, qin, watchVars>>

WalkDone ==
    /\ qpc = "walk"
    /\ qout.next > qout.totalPages
    /\ qpc' = "done"
    /\ UNCHANGED <<fs, data, columns, filePath, heap, tasks, nextTask, published, held, crashed, qin, qout, watchVars>>

NextPageWalk == WalkFirst \/ WalkNext \/ WalkDone

SpecPageWalk == InitPageWalk /\ [][NextPageWalk]_vars

IsInt(v) == v.t = "num"

PaginateDone == qpc = "done" /\ qin.op = "paginate"

\* C4: for non-empty rows and numbers page >= 1 and limit >= 1, the slice has
\* min(limit, max(0, totalRows - (page-1)*limit)) rows, totalRows is the number of
\* rows, totalPages is the least number of pages of limit rows that hold them all,
\* and a page beyond totalPages is empty.
C4_SliceLengthAndTotals ==
    (PaginateDone /\ Len(qin.rows) > 0 /\ IsInt(qin.page) /\ IsInt(qin.limit)
        /\ qin.page.n >= 1 /\ qin.limit.n >= 1) =>
        LET total == Len(qin.rows)
            rest == total - (qin.page.n - 1) * qin.limit.n
        IN  /\ Len(qout.data) = (IF rest <= 0 THEN 0 ELSE IF rest < qin.limit.n THEN rest ELSE qin.limit.n)
            /\ qout.totalRows = total
            /\ qout.totalPages * qin.limit.n >= total
            /\ (qout.totalPages - 1) * qin.limit.n < total
            /\ (qin.page.n > qout.totalPages => qout.data = <<>>)

\* a page beyond the last one, and a last page that is not full
C4_Witness ==
    /\ PaginateDone
    /\ Len(qin.rows) = 25
    /\ qin.limit = Num(10)
    /\ qin.page = Num(4)
    /\ qout.totalPages = 3
    /\ qout.data = <<>>

\* C5: the slices of the pages 1..totalPages, concatenated in page order, are rows.
C5_PagesReconstructRows ==
    (qpc = "done" /\ qin.op = "walk") => qout.acc = qin.rows

\* a walk over three pages, the last one not full
C5_Witness ==
    /\ qpc = "done"
    /\ qin.op = "walk"
    /\ Len(qin.rows) = 25
    /\ qin.limit = Num(10)
    /\ qout.totalPages = 3
    /\ qout.next = 4

\* C6: the reported page and limit are integers >= 1 whatever the rows and the
\* arguments are; an absent page reports 1 and an absent limit reports 10.
C6_PageAndLimitClamped ==
    PaginateDone =>
        /\ IsInt(qout.page) /\ qout.page.n >= 1
        /\ IsInt(qout.limit) /\ qout.limit.n >= 1
        /\ (qin.page = Undefined => qout.page = Num(1))
        /\ (qin.limit = Undefined => qout.limit = Num(10))

\* C7: for non-empty rows and 1 <= page <= totalPages: hasNext, hasPrev, and
\* startIndex and endIndex, the 1-based positions in rows of the first and the last
\* row of the slice.
C7_PageMetadata ==
    (PaginateDone /\ Len(qin.rows) > 0 /\ IsInt(qin.page) /\ IsInt(qin.limit)
        /\ qin.limit.n >= 1 /\ qin.page.n >= 1 /\ qin.page.n <= qout.totalPages) =>
        /\ qout.hasNext = (qin.page.n < qout.totalPages)
        /\ qout.hasPrev = (qin.page.n > 1)
        /\ qout.hasIndex
        /\ qout.startIndex = (qin.page.n - 1) * qin.limit.n + 1
        /\ qout.endIndex = (IF qin.page.n * qin.limit.n < Len(qin.rows)
                            THEN qin.page.n * qin.limit.n ELSE Len(qin.rows))
        /\ Len(qout.data) = qout.endIndex - qout.startIndex + 1
        /\ qout.data[1] = qin.rows[qout.startIndex]
        /\ qout.data[Len(qout.data)] = qin.rows[qout.endIndex]

\* 25 rows, page 3, limit 10: 5 rows, hasNext false, hasPrev true, 21 to 25
C7_Witness ==
    /\ PaginateDone
    /\ Len(qin.rows) = 25
    /\ qin.page = Num(3)
    /\ qin.limit = Num(10)
    /\ Len(qout.data) = 5
    /\ ~qout.hasNext
    /\ qout.hasPrev
    /\ qout.startIndex = 21
    /\ qout.endIndex = 25

(***************************************************************************)
(* sortCsv applied to rows with an id and, unless the key is absent, a     *)
(* value in column "v".                                                    *)
(***************************************************************************)
MaxSortRows == 3

Absent == Undefined
SortCells ==
    {Absent, Null, Str(<<>>), Str(<<"1">>), Str(<<"0", "1">>), Str(<<"1", "0">>),
     Str(<<"9">>), Str(<<"0", "a">>), Str(<<"a">>), Str(<<"A">>)}
SortDirections == {"asc", "desc", "DESC"}

\* the rows with the ids 1..Len(cells) and the given cells in column "v"
SortRows(cells) ==
    [i \in 1..Len(cells) |->
        IF cells[i] = Absent THEN <<Pair("id", Num(i))>>
        ELSE <<Pair("id", Num(i)), Pair("v", cells[i])>>]

InitSort ==
    /\ LoaderUnused
    /\ qin \in {[op |-> "sort", rows |-> SortRows(cells), column |-> col, direction |-> dir] :
                    cells \in SeqsUpTo(SortCells, MaxSortRows), col \in {"v", ""},
                    dir \in SortDirections}
    /\ qout = NoQuery
    /\ qpc = "call"

CallSort ==
    /\ qpc = "call"
    /\ qin.op = "sort"
    /\ qout' = sortCsv(qin.rows, qin.column, qin.direction)
    /\ qpc' = "done"
    /\ UNCHANGED <<fs, data, columns, filePath, heap, tasks, nextTask, published, held, crashed, qin, watchVars>>

NextSort == CallSort

SpecSort == InitSort /\ [][NextSort]_vars

SortDone == qpc = "done" /\ qin.op = "sort" /\ qin.column = "v"

Present(row) == Get(row, "v").t \notin {"null", "undefined"}

\* the position of the row with the id of row in the sequence seq
PositionIn(seq, row) == CHOOSE i \in 1..Len(seq) : seq[i] = row

IsPermutation(out, in) ==
    /\ Len(out) = Len(in)
    /\ \A i \in 1..Len(in) : \E j \in 1..Len(out) : out[j] = in[i]

\* C8: the output holds the rows of the input, and no row with a missing or null
\* value comes before a row with a present value, whatever the direction.
C8_MissingSortLast ==
    SortDone =>
        /\ IsPermutation(qout, qin.rows)
        /\ \A i \in 1..Len(qout), j \in 1..Len(qout) :
               (i < j /\ ~Present(qout[i])) => ~Present(qout[j])

\* a descending sort that moved a missing and a null value behind a present one
C8_Witness ==
    /\ SortDone
    /\ qin.direction = "desc"
    /\ Len(qin.rows) = 3
    /\ Get(qin.rows[1], "v") = Undefined
    /\ Get(qin.rows[2], "v") = Null
    /\ Present(qin.rows[3])
    /\ qout[1] = qin.rows[3]

IsDecimal(v) == v.t = "str" /\ v.s # <<>> /\ \A i \in 1..Len(v.s) : v.s[i] \in Range(Digits)

\* the keys of two rows compare equal: both missing or null, numerically equal
\* decimal strings, or strings equal after case folding
C9_EqualKeys(a, b) ==
    LET x == Get(a, "v")
        y == Get(b, "v")
    IN  \/ ~Present(a) /\ ~Present(b)
        \/ /\ Present(a) /\ Present(b)
           /\ \/ IsDecimal(x) /\ IsDecimal(y) /\ DigitsValue(x.s) = DigitsValue(y.s)
              \/ ToLowerCase(StringOf(x)) = ToLowerCase(StringOf(y))

\* C9: two rows whose sort keys compare equal keep their input order in the output.
C9_SortIsStable ==
    SortDone =>
        \A i \in 1..Len(qin.rows), j \in 1..Len(qin.rows) :
            (i < j /\ C9_EqualKeys(qin.rows[i], qin.rows[j])) =>
                PositionIn(qout, qin.rows[i]) < PositionIn(qout, qin.rows[j])

\* a <= b in the order of lower-cased strings: a is a prefix of b, or a has the
\* lower character at the first position where they differ
C10_StringLeq(a, b) ==
    \/ Len(a) <= Len(b) /\ SubSeq(b, 1, Len(a)) = a
    \/ \E i \in 1..Min(Len(a), Len(b)) :
           /\ SubSeq(a, 1, i - 1) = SubSeq(b, 1, i - 1)
           /\ CharRank(a[i]) < CharRank(b[i])

C10_PresentValues(rows) == {Get(rows[i], "v") : i \in {k \in 1..Len(rows) : Present(rows[k])}}

C10_Descending == qin.direction = "desc"

\* C10: over a column whose present values all parse as numbers the present values
\* of the output are in numeric order, over a column with no decimal string they
\* are in the order of the case-folded strings: non-decreasing, or non-increasing
\* for 'desc'; a direction other than 'desc' sorts as 'asc' does.
C10_PresentValuesOrdered ==
    SortDone =>
        /\ (\A v \in C10_PresentValues(qin.rows) : v.t = "str" /\ AllDigits(v.s)) =>
               \A i \in 1..Len(qout), j \in 1..Len(qout) :
                   (i < j /\ Present(qout[i]) /\ Present(qout[j])) =>
                       LET x == DigitsValue(Get(qout[i], "v").s)
                           y == DigitsValue(Get(qout[j], "v").s)
                       IN  IF C10_Descending THEN x >= y ELSE x <= y
        /\ (\A v \in C10_PresentValues(qin.rows) : ~IsDecimal(v)) =>
               \A i \in 1..Len(qout), j \in 1..Len(qout) :
                   (i < j /\ Present(qout[i]) /\ Present(qout[j])) =>
                       LET x == ToLowerCase(StringOf(Get(qout[i], "v")))
                           y == ToLowerCase(StringOf(Get(qout[j], "v")))
                       IN  IF C10_Descending THEN C10_StringLeq(y, x) ELSE C10_StringLeq(x, y)
        /\ (qin.direction # "desc" => qout = sortCsv(qin.rows, qin.column, "asc"))

\* a descending sort of the numbers 9, 10 and 1, which differs from the order of
\* their strings
C10_Witness ==
    /\ SortDone
    /\ qin.direction = "desc"
    /\ Len(qin.rows) = 3
    /\ Get(qin.rows[1], "v") = Str(<<"9">>)
    /\ Get(qin.rows[2], "v") = Str(<<"1", "0">>)
    /\ Get(qin.rows[3], "v") = Str(<<"1">>)
    /\ qout = <<qin.rows[2], qin.rows[1], qin.rows[3]>>

(***************************************************************************)
(* filterColumns applied to rows over the keys "a" and "b" and to a        *)
(* columns argument that is absent, a string over a, b, comma and space,   *)
(* or a list.                                                              *)
(***************************************************************************)
MaxFilterRows == 2
MaxColumnsLen == 3
MaxColumnsList == 2

KeyA == <<"a">>
KeyB == <<"b">>
FilterRowSet ==
    {<<>>,
     <<Pair(KeyA, Str(<<"1">>))>>,
     <<Pair(KeyB, Str(<<"2">>))>>,
     <<Pair(KeyA, Str(<<"1">>)), Pair(KeyB, Str(<<"2">>))>>,
     <<Pair(KeyB, Str(<<"3">>)), Pair(KeyA, Null)>>}
ColumnsChars == {"a", "b", ",", " "}
ColumnsListItems == {<<>>, <<"a">>, <<"b">>, <<"c">>, <<" ", "a">>, <<"b", " ">>, <<" ">>}
ColumnsArgs ==
    {NoColumns} \cup {ColumnsString(s) : s \in SeqsUpTo(ColumnsChars, MaxColumnsLen)}
                \cup {ColumnsList(l) : l \in SeqsUpTo(ColumnsListItems, MaxColumnsList)}

InitFilter ==
    /\ LoaderUnused
    /\ qin \in {[op |-> "filter", rows |-> r, columns |-> c] :
                    r \in SeqsUpTo(FilterRowSet, MaxFilterRows), c \in ColumnsArgs}
    /\ qout = NoQuery
    /\ qpc = "call"

CallFilter ==
    /\ qpc = "call"
    /\ qin.op = "filter"
    /\ qout' = filterColumns(qin.rows, qin.columns)
    /\ qpc' = "done"
    /\ UNCHANGED <<fs, data, columns, filePath, heap, tasks, nextTask, published, held, crashed, qin, watchVars>>

NextFilter == CallFilter

SpecFilter == InitFilter /\ [][NextFilter]_vars

FilterDone == qpc = "done" /\ qin.op = "filter"

\* name is what is left of piece when the spaces around it are taken away
C11_TrimsTo(piece, name) ==
    \E from \in 1..(Len(piece) + 1), to \in 0..Len(piece) :
        /\ SubSeq(piece, from, to) = name
        /\ \A i \in 1..Len(piece) : (i < from \/ i > to) => piece[i] = " "
        /\ name = <<>> \/ (name[1] # " " /\ name[Len(name)] # " ")

\* the entries of a columns argument: the items of a list, the stretches between
\* the commas of a string
C11_Entries(cols) ==
    IF cols.t = "list" THEN Range(cols.items)
    ELSE {SubSeq(cols.s, w[1], w[2]) :
             w \in {v \in (1..(Len(cols.s) + 1)) \X (0..Len(cols.s)) :
                       /\ v[2] >= v[1] - 1
                       /\ \A i \in v[1]..v[2] : cols.s[i] # ","
                       /\ (v[1] = 1 \/ cols.s[v[1] - 1] = ",")
                       /\ (v[2] = Len(cols.s) \/ cols.s[v[2] + 1] = ",")}}

\* the column names a columns argument asks for: its entries, trimmed, the empty
\* ones left out
C11_Requested(cols) ==
    {n \in UNION {{SubSeq(e, from, to) : from \in 1..(Len(e) + 1), to \in 0..Len(e)} :
                     e \in C11_Entries(cols)} :
        n # <<>> /\ \E e \in C11_Entries(cols) : C11_TrimsTo(e, n)}

\* the entries of a list need no trimming
C11_CleanList(cols) ==
    cols.t = "list" => \A e \in Range(cols.items) : C11_TrimsTo(e, e)

C11_Keys(row) == {row[i].k : i \in 1..Len(row)}

C12_ColumnsNormalisedAlike ==
    (FilterDone /\ qin.columns.t # "undefined") =>
        IF C11_Requested(qin.columns) = {}
        THEN qout = qin.rows
        ELSE /\ Len(qout) = Len(qin.rows)
             /\ \A i \in 1..Len(qin.rows) :
                    C11_Keys(qout[i]) = C11_Requested(qin.columns) \cap C11_Keys(qin.rows[i])

(***************************************************************************)
(* getRowById applied to rows with the columns "id" (possibly missing) and *)
(* "n" (the row's number).                                                 *)
(***************************************************************************)
MaxByIdRows == 3

ByIdCells == {Absent, Null, Str(<<>>), Str(<<"1">>), Str(<<"0", "1">>), Str(<<"a">>)}
ByIdIds == {Undefined, Null, Str(<<>>), Str(<<"1">>), Str(<<"0", "1">>), Str(<<"a">>),
            Str(<<"0">>), Str(<<"2">>), Num(1)}
ByIdColumns == {"", "id", "n", "zz"}

\* the rows with the given cells in column "id" and the numbers 1.. in column "n"
ByIdRows(cells) ==
    [i \in 1..Len(cells) |->
        IF cells[i] = Absent THEN <<Pair("n", Num(i))>>
        ELSE <<Pair("id", cells[i]), Pair("n", Num(i))>>]

InitById ==
    /\ LoaderUnused
    /\ qin \in {[op |-> "byId", rows |-> ByIdRows(c), id |-> id, idColumn |-> col] :
                    c \in SeqsUpTo(ByIdCells, MaxByIdRows), id \in ByIdIds, col \in ByIdColumns}
    /\ qout = NoQuery
    /\ qpc = "call"

CallById ==
    /\ qpc = "call"
    /\ qin.op = "byId"
    /\ qout' = getRowById(qin.rows, qin.id, qin.idColumn)
    /\ qpc' = "done"
    /\ UNCHANGED <<fs, data, columns, filePath, heap, tasks, nextTask, published, held, crashed, qin, watchVars>>

NextById == CallById

SpecById == InitById /\ [][NextById]_vars

ByIdDone == qpc = "done" /\ qin.op = "byId"

\* the column looked at: the one asked for, else the first key of the first row
C13_IdColumn == IF qin.idColumn # "" THEN qin.idColumn ELSE qin.rows[1][1].k

\* v is a number or a decimal numeral, and C13_Value(v) is the number it stands for
C13_IsNumber(v) == v.t = "num" \/ IsDecimal(v)
C13_Value(v) == IF v.t = "num" THEN v.n ELSE DigitsValue(v.s)

\* the cell of the row in the id column is present and matches the id
C13_Matches(row) ==
    LET cell == Get(row, C13_IdColumn)
    IN  /\ cell.t \notin {"null", "undefined"}
        /\ \/ StringOf(cell) = StringOf(qin.id)
           \/ C13_IsNumber(cell) /\ C13_IsNumber(qin.id) /\ C13_Value(cell) = C13_Value(qin.id)

\* the empty string is neither the id nor a cell of the id column
C13_NoEmptyString ==
    /\ qin.id # Str(<<>>)
    /\ \A i \in 1..Len(qin.rows) : Get(qin.rows[i], C13_IdColumn) # Str(<<>>)

MaxStatRows == 4

StatCellsWhole == {Absent, Str(<<"1">>), Str(<<"2">>), Str(<<"3">>), Str(<<"4">>)}
StatCellsMixed == {Null, Str(<<>>), Str(<<"a">>), Str(<<"0", ".", "0", "0", "1">>),
                   Str(<<"0", ".", "0", "0", "6">>)}
StatShapes ==
    {[numericColumns |-> <<>>, w |-> "none"],
     [numericColumns |-> <<>>, w |-> "first"],
     [numericColumns |-> <<>>, w |-> "last"],
     [numericColumns |-> <<"v">>, w |-> "none"],
     [numericColumns |-> <<"w", "v">>, w |-> "last"],
     [numericColumns |-> <<"zz", "v", "v">>, w |-> "first"]}

StatRows(cells, w) ==
    [i \in 1..Len(cells) |->
        (IF cells[i] = Absent THEN <<>> ELSE <<Pair("v", cells[i])>>)
        \o (IF (w = "first" /\ i = 1) \/ (w = "last" /\ i = Len(cells))
            THEN <<Pair("w", Str(<<"7">>))>> ELSE <<>>)]

InitStats ==
    /\ LoaderUnused
    /\ qin \in {[op |-> "stats", rows |-> StatRows(c, s.w), numericColumns |-> s.numericColumns] :
                    c \in SeqsUpTo(StatCellsWhole, MaxStatRows) \cup SeqsUpTo(StatCellsMixed, MaxStatRows),
                    s \in StatShapes}
    /\ qout = NoQuery
    /\ qpc = "call"

CallStats ==
    /\ qpc = "call"
    /\ qin.op = "stats"
    /\ qout' = getColumnStats(qin.rows, qin.numericColumns)
    /\ qpc' = "done"
    /\ UNCHANGED <<fs, data, columns, filePath, heap, tasks, nextTask, published, held, crashed, qin, watchVars>>

NextStats == CallStats

SpecStats == InitStats /\ [][NextStats]_vars

StatsDone == qpc = "done" /\ qin.op = "stats"

\* no cell of the rows is the empty string
C14_NoEmptyString ==
    \A i \in 1..Len(qin.rows) : \A j \in 1..Len(qin.rows[i]) : qin.rows[i][j].v # Str(<<>>)

\* the rows whose cell in the column is present and numeric, and the number there
C14_Numeric(column) ==
    {i \in 1..Len(qin.rows) :
        LET cell == Get(qin.rows[i], column)
        IN  cell.t \notin {"null", "undefined"} /\ ~NumberOf(cell).nan}
C14_Value(column, i) == NumberOf(Get(qin.rows[i], column)).n

\* the columns analysed: those asked for, else the keys of the first row
C14_Candidates ==
    IF qin.rows = <<>> THEN {}
    ELSE IF qin.numericColumns # <<>> THEN Range(qin.numericColumns)
    ELSE C11_Keys(qin.rows[1])

RECURSIVE C14_Sum(_, _)
C14_Sum(column, rowSet) ==
    IF rowSet = {} THEN 0
    ELSE LET i == CHOOSE i \in rowSet : TRUE
         IN  C14_Value(column, i) + C14_Sum(column, rowSet \ {i})

\* the k-th least of the numeric values of the column
C14_Kth(column, k) ==
    CHOOSE x \in {C14_Value(column, i) : i \in C14_Numeric(column)} :
        /\ Cardinality({i \in C14_Numeric(column) : C14_Value(column, i) < x}) < k
        /\ Cardinality({i \in C14_Numeric(column) : C14_Value(column, i) <= x}) >= k

\* twice the median of the numeric values of the column
C14_TwiceMedian(column) ==
    LET count == Cardinality(C14_Numeric(column))
    IN  IF count % 2 = 0
        THEN C14_Kth(column, count \div 2) + C14_Kth(column, (count \div 2) + 1)
        ELSE 2 * C14_Kth(column, (count + 1) \div 2)

\* the entry of the column has the count, sum, least, greatest and range of the
\* numeric values, and their mean rounded to the nearest hundredth
C14_Basics(column) ==
    LET s == Get(qout, column)
        rowSet == C14_Numeric(column)
    IN  /\ HasOwnProperty(qout, column)
        /\ s.count = Cardinality(rowSet)
        /\ s.sum = C14_Sum(column, rowSet)
        /\ \E i \in rowSet : s.min = C14_Value(column, i)
        /\ \E i \in rowSet : s.max = C14_Value(column, i)
        /\ \A i \in rowSet : s.min <= C14_Value(column, i) /\ C14_Value(column, i) <= s.max
        /\ s.range = s.max - s.min
        /\ s.mean % 10 = 0
        /\ (s.mean - 5) * s.count <= s.sum
        /\ s.sum <= (s.mean + 5) * s.count

C14_Analysed == {c \in C14_Candidates : C14_Numeric(c) # {}}

MaxUniqueRows == 4

UniqueCells == {Absent, Null, Str(<<>>), Str(<<"a">>), Str(<<"A">>), Str(<<"1">>), Num(1)}
UniqueColumns == {"", "v", "id", "zz"}

InitUnique ==
    /\ LoaderUnused
    /\ qin \in {[op |-> "unique", rows |-> SortRows(c), column |-> col] :
                    c \in SeqsUpTo(UniqueCells, MaxUniqueRows), col \in UniqueColumns}
    /\ qout = NoQuery
    /\ qpc = "call"

CallUnique ==
    /\ qpc = "call"
    /\ qin.op = "unique"
    /\ qout' = getUniqueValues(qin.rows, qin.column)
    /\ qpc' = "done"
    /\ UNCHANGED <<fs, data, columns, filePath, heap, tasks, nextTask, published, held, crashed, qin, watchVars>>

NextUnique == CallUnique

SpecUnique == InitUnique /\ [][NextUnique]_vars

UniqueDone == qpc = "done" /\ qin.op = "unique"

\* the rows with a value (not null, not missing) in the column
C16_Occurrences ==
    {i \in 1..Len(qin.rows) : Get(qin.rows[i], qin.column).t \notin {"null", "undefined"}}

\* the first row where the value occurs in the column
C16_First(value) ==
    CHOOSE i \in C16_Occurrences :
        /\ Get(qin.rows[i], qin.column) = value
        /\ \A j \in C16_Occurrences : Get(qin.rows[j], qin.column) = value => i <= j

\* C16: the result holds every value found in the column, null and missing apart,
\* exactly once and nothing else, in the order of the first occurrences; it is empty
\* for no rows or no column name.
C16_DistinctValuesInFirstSeenOrder ==
    UniqueDone =>
        IF Len(qin.rows) = 0 \/ qin.column = ""
        THEN qout = <<>>
        ELSE /\ Range(qout) = {Get(qin.rows[i], qin.column) : i \in C16_Occurrences}
             /\ \A i \in 1..Len(qout), j \in 1..Len(qout) :
                    i < j => C16_First(qout[i]) < C16_First(qout[j])

\* 'a', null, '1', 'a', with 1 and '1' kept apart from each other
C16_Witness ==
    /\ UniqueDone
    /\ qin.column = "v"
    /\ qin.rows = SortRows(<<Str(<<"a">>), Null, Num(1), Str(<<"a">>)>>)
    /\ qout = <<Str(<<"a">>), Num(1)>>

(***************************************************************************)
(* A dataset: the state after createDataset(filePath) has loaded the file, *)
(* and the query methods of the object it returns, called in any order.    *)
(* Each method reads loader.getData(); Array.prototype.sort is the one     *)
(* operation in them that writes to an array, the one it is called on.     *)
(***************************************************************************)
MaxDatasetRows == 3

DatasetPath == "p1"
DatasetCells == {Absent, Str(<<"2">>), Str(<<"1">>)}

\* `await loader.loadCsv(filePath, options)` on a new loader, for a file with the rows given
DatasetLoaded(rows) ==
    /\ fs = [p \in Paths |-> IF p = DatasetPath THEN File(rows) ELSE Missing]
    /\ filePath = DatasetPath
    /\ data = NewArray(1)
    /\ columns = AllKeys(rows)
    /\ heap = [r \in Refs |-> IF r = NewArray(1) THEN rows ELSE <<>>]
    /\ tasks = [id \in TaskIds |->
                   IF id = 1
                   THEN [st |-> "resolved", path |-> DatasetPath, ref |-> NewArray(1),
                         cols |-> AllKeys(rows), pos |-> Len(rows), content |-> rows,
                         installed |-> TRUE, prior |-> 0]
                   ELSE IdleTask]
    /\ nextTask = 2
    /\ published = {0, NewArray(1)}
    /\ held = 0
    /\ crashed = FALSE
    /\ WatcherInit

InitDataset ==
    /\ \E cells \in SeqsUpTo(DatasetCells, MaxDatasetRows) : DatasetLoaded(SortRows(cells))
    /\ qin = NoQuery
    /\ qout = NoQuery
    /\ qpc = "idle"

\* the array that `const sortedData = [...data]` names: a new one
SortedDataAliased(fresh) == data

SortedData(fresh) == fresh

\* a column name as the characters filterColumns splits and trims
NameChars(name) ==
    CASE name = "id" -> <<"i", "d">>
      [] OTHER -> <<"v">>
CharKeyed(rows) ==
    [i \in 1..Len(rows) |-> [j \in 1..Len(rows[i]) |-> Pair(NameChars(rows[i][j].k), rows[i][j].v)]]

DatasetColumns == {"", "v", "id"}
DatasetDirections == {"asc", "desc"}
DatasetTerms == {Undefined, Str(<<"1">>)}
DatasetColumnsArgs ==
    {NoColumns, ColumnsString(<<"v", ",", " ", "i", "d">>), ColumnsList(<<<<"v">>>>)}
DatasetPageArgs == {Undefined, Str(<<"2">>)}
DatasetIds == {Undefined, Str(<<"1">>)}
DatasetStatColumns == {<<>>, <<"v">>}

\* search: (term) => searchCsv(loader.getData(), term)
DatasetSearch(term) ==
    /\ qin' = [op |-> "search", term |-> term]
    /\ qout' = searchCsv(heap[data], term)
    /\ qpc' = "done"
    /\ UNCHANGED <<fs, data, columns, filePath, heap, tasks, nextTask, published, held, crashed, watchVars>>

\* filter: (columns) => filterColumns(loader.getData(), columns)
DatasetFilter(cols) ==
    /\ qin' = [op |-> "filter", columns |-> cols]
    /\ qout' = filterColumns(CharKeyed(heap[data]), cols)
    /\ qpc' = "done"
    /\ UNCHANGED <<fs, data, columns, filePath, heap, tasks, nextTask, published, held, crashed, watchVars>>

\* paginate: (page, limit) => paginateCsv(loader.getData(), page, limit)
DatasetPaginate(page, limit) ==
    /\ qin' = [op |-> "paginate", page |-> page, limit |-> limit]
    /\ qout' = paginateCsv(heap[data], page, limit)
    /\ qpc' = "done"
    /\ UNCHANGED <<fs, data, columns, filePath, heap, tasks, nextTask, published, held, crashed, watchVars>>

\* findById: (id, idColumn) => getRowById(loader.getData(), id, idColumn)
DatasetFindById(id, idColumn) ==
    /\ qin' = [op |-> "byId", id |-> id, idColumn |-> idColumn]
    /\ qout' = getRowById(heap[data], id, idColumn)
    /\ qpc' = "done"
    /\ UNCHANGED <<fs, data, columns, filePath, heap, tasks, nextTask, published, held, crashed, watchVars>>

\* sort: (column, direction) => sortCsv(loader.getData(), column, direction); the
\* array named sortedData is sorted in place and returned
DatasetSort(column, direction) ==
    /\ qin' = [op |-> "sort", column |-> column, direction |-> direction]
    /\ IF Len(heap[data]) = 0 \/ column = ""
       THEN /\ heap' = heap
            /\ qout' = heap[data]
       ELSE /\ heap' = [heap EXCEPT ![SortedData(NewArray(nextTask))] =
                                        sortCsv(heap[data], column, direction)]
            /\ qout' = sortCsv(heap[data], column, direction)
    /\ qpc' = "done"
    /\ UNCHANGED <<fs, data, columns, filePath, tasks, nextTask, published, held, crashed, watchVars>>

\* getUnique: (column) => getUniqueValues(loader.getData(), column)
DatasetGetUnique(column) ==
    /\ qin' = [op |-> "unique", column |-> column]
    /\ qout' = getUniqueValues(heap[data], column)
    /\ qpc' = "done"
    /\ UNCHANGED <<fs, data, columns, filePath, heap, tasks, nextTask, published, held, crashed, watchVars>>

\* getStats: (columns) => getColumnStats(loader.getData(), columns); the values it
\* sorts are in an array that map and filter made
DatasetGetStats(numericColumns) ==
    /\ qin' = [op |-> "stats", numericColumns |-> numericColumns]
    /\ qout' = getColumnStats(heap[data], numericColumns)
    /\ qpc' = "done"
    /\ UNCHANGED <<fs, data, columns, filePath, heap, tasks, nextTask, published, held, crashed, watchVars>>

NextDataset ==
    \/ \E term \in DatasetTerms : DatasetSearch(term)
    \/ \E cols \in DatasetColumnsArgs : DatasetFilter(cols)
    \/ \E page \in DatasetPageArgs, limit \in DatasetPageArgs : DatasetPaginate(page, limit)
    \/ \E id \in DatasetIds, idColumn \in DatasetColumns : DatasetFindById(id, idColumn)
    \/ \E column \in DatasetColumns, direction \in DatasetDirections : DatasetSort(column, direction)
    \/ \E column \in DatasetColumns : DatasetGetUnique(column)
    \/ \E numericColumns \in DatasetStatColumns : DatasetGetStats(numericColumns)

SpecDataset == InitDataset /\ [][NextDataset]_vars

\* what getData() and getColumns() return in the next state is what they return now
C17_Step ==
    /\ heap'[data'] = heap[data]
    /\ columns' = columns

\* C17: no query call changes what getData() and getColumns() return: the rows, their
\* order, their cells, and the columns.
C17_QueriesAreReadOnly == [][C17_Step]_vars

\* a sort has returned the rows in another order than the stored one, which is still
\* that of the file
C17_Witness ==
    /\ qpc = "done"
    /\ qin.op = "sort"
    /\ Len(qout) = 3
    /\ qout # heap[data]
    /\ heap[data] = fs[DatasetPath].rows
    /\ columns = <<"id", "v">>

(***************************************************************************)
(* Claims about the watcher, checked under SpecWatch.                      *)
(***************************************************************************)
C19_CallsFor(id) == {i \in 1..Len(calls) : calls[i].reload = id}

\* C19: a reload made by the watcher that succeeded has had the callback invoked
\* exactly once, with the rows and columns it installed; one that failed has had no
\* callback invoked and its error logged, and the watcher is still there for later
\* changes.
C19_NotifiedOnSuccessLoggedOnFailure ==
    \A id \in TaskIds :
        reloads[id] # "none" =>
            /\ tasks[id].st = "resolved" =>
                   /\ Cardinality(C19_CallsFor(id)) = 1
                   /\ \A i \in C19_CallsFor(id) :
                          calls[i].data = tasks[id].ref /\ calls[i].columns = tasks[id].cols
            /\ Failed(id) =>
                   /\ C19_CallsFor(id) = {}
                   /\ id \in logged
                   /\ ~crashed
                   /\ watcher # NoPath

C20_Started == {id \in TaskIds : reloads[id] # "none"}

\* a step that starts a reload does so for the raw write events pending, all within
\* one window, after a quiet stability threshold, and starts one reload only; a
\* step of the same watcher that leaves no raw write event pending starts a reload
C20_Step ==
    /\ C20_Started' # C20_Started =>
           /\ pendingWrites > 0
           /\ pendingWrites' = 0
           /\ quiet * PollInterval >= StabilityThreshold
           /\ Cardinality(C20_Started' \ C20_Started) = 1
    /\ (pendingWrites > 0 /\ pendingWrites' = 0 /\ watcher' = watcher /\ onDataChange' = onDataChange) =>
           C20_Started' # C20_Started

MaxHttpRows == 2

HttpNames == {"id", "v", "x"}
ColumnChars(name) == IF name = "x" THEN <<"x">> ELSE NameChars(name)
ColumnName(chars) == CHOOSE name \in HttpNames : ColumnChars(name) = chars
StringKeyed(rows) ==
    [i \in 1..Len(rows) |-> [j \in 1..Len(rows[i]) |-> Pair(ColumnName(rows[i][j].k), rows[i][j].v)]]

\* the 404 of a route whose data is empty or not loaded
NoDataAvailable == [status |-> 404, error |-> "No data available"]

\* GET /data: `result` after the search, column filtering and sorting steps
ListingResult(rows, query) ==
    LET searched == IF IsFalsyString(query.search) THEN rows
                    ELSE searchCsv(rows, query.search)
        filtered == IF query.columns = <<>> THEN searched
                    ELSE StringKeyed(filterColumns(CharKeyed(searched), ColumnsString(query.columns)))
        order == IF query.order = "desc" THEN "desc" ELSE "asc"
    IN  IF query.sort = "" THEN filtered ELSE sortCsv(filtered, query.sort, order)

\* GET /data
GetDataResponse(rows, query) ==
    IF Len(rows) = 0 THEN NoDataAvailable
    ELSE LET result == ListingResult(rows, query)
             page == OrElse(ParseInt(query.page), 1)
             limit == OrElse(ParseInt(query.limit), 10)
             paginated == paginateCsv(result, Num(page), Num(limit))
         IN  [status |-> 200,
              data |-> paginated.data,
              pagination |-> [f \in DOMAIN paginated \ {"data"} |-> paginated[f]],
              totalResults |-> Len(result),
              appliedFilters |-> [search |-> query.search, columns |-> query.columns,
                                  sort |-> query.sort,
                                  order |-> IF query.order = "" THEN "asc" ELSE query.order]]

\* value || index for a cell: null, undefined, '' and 0 are falsy
CellOrIndex(v, index) ==
    IF IsNullish(v) \/ v = Str(<<>>) \/ v = Num(0) THEN Num(index) ELSE v

\* data.slice(0, 10).map((r, index) => r[Object.keys(r)[0]] || index)
AvailableIds(rows) ==
    [i \in 1..Min(10, Len(rows)) |->
        IF Len(rows[i]) = 0 THEN Num(i - 1) ELSE CellOrIndex(rows[i][1].v, i - 1)]

\* GET /data/:id
GetByIdResponse(rows, id, idColumn) ==
    IF Len(rows) = 0 THEN NoDataAvailable
    ELSE LET row == getRowById(rows, id, idColumn) IN
         IF ~row.found
         THEN [status |-> 404, error |-> "Row not found", id |-> id,
               availableIds |-> AvailableIds(rows)]
         ELSE [status |-> 200, data |-> row.row, id |-> id,
               idColumn |-> ColumnToUse(rows, idColumn)]

\* req.query.columns ? req.query.columns.split(',') : []
StatsColumns(columnsParam) ==
    IF columnsParam = <<>> THEN <<>>
    ELSE LET pieces == SplitCommas(columnsParam) IN
         [i \in 1..Len(pieces) |-> ColumnName(pieces[i])]

\* GET /stats
GetStatsResponse(rows, columnsParam) ==
    IF Len(rows) = 0 THEN NoDataAvailable
    ELSE LET stats == getColumnStats(rows, StatsColumns(columnsParam)) IN
         [status |-> 200, stats |-> stats, totalRows |-> Len(rows),
          analyzedColumns |-> ObjectKeys(stats)]

\* GET /unique/:column
GetUniqueResponse(rows, cols, column) ==
    IF Len(rows) = 0 THEN NoDataAvailable
    ELSE IF column \notin Range(cols)
    THEN [status |-> 400, error |-> "Invalid column", column |-> column,
          availableColumns |-> cols]
    ELSE LET uniqueValues == getUniqueValues(rows, column) IN
         [status |-> 200, column |-> column, uniqueValues |-> uniqueValues,
          totalUnique |-> Len(uniqueValues), totalRows |-> Len(rows)]

HttpSearches == {Undefined, Str(<<"1">>)}
HttpColumnLists == {<<>>, <<"v">>, <<"v", ",", "x">>}
HttpSorts == {"", "id", "x"}
HttpOrders == {"", "desc"}
HttpPageArgs == {Undefined, Str(<<"2">>)}
HttpLimitArgs == {Undefined, Str(<<"1">>)}
HttpIds == {Str(<<"1">>), Str(<<"3">>)}

\* the server answers requests once main() has loaded the file
InitHttp ==
    /\ \E cells \in SeqsUpTo(DatasetCells, MaxHttpRows) : DatasetLoaded(SortRows(cells))
    /\ qin = NoQuery
    /\ qout = NoQuery
    /\ qpc = "idle"

HttpGetData(query) ==
    /\ qin' = [op |-> "GET /data", query |-> query]
    /\ qout' = GetDataResponse(heap[data], query)
    /\ qpc' = "done"
    /\ UNCHANGED <<fs, data, columns, filePath, heap, tasks, nextTask, published, held, crashed, watchVars>>

HttpGetById(id, idColumn) ==
    /\ qin' = [op |-> "GET /data/:id", id |-> id, idColumn |-> idColumn]
    /\ qout' = GetByIdResponse(heap[data], id, idColumn)
    /\ qpc' = "done"
    /\ UNCHANGED <<fs, data, columns, filePath, heap, tasks, nextTask, published, held, crashed, watchVars>>

HttpGetStats(columnsParam) ==
    /\ qin' = [op |-> "GET /stats", columns |-> columnsParam]
    /\ qout' = GetStatsResponse(heap[data], columnsParam)
    /\ qpc' = "done"
    /\ UNCHANGED <<fs, data, columns, filePath, heap, tasks, nextTask, published, held, crashed, watchVars>>

HttpGetUnique(column) ==
    /\ qin' = [op |-> "GET /unique/:column", column |-> column]
    /\ qout' = GetUniqueResponse(heap[data], columns, column)
    /\ qpc' = "done"
    /\ UNCHANGED <<fs, data, columns, filePath, heap, tasks, nextTask, published, held, crashed, watchVars>>

NextHttp ==
    \/ \E search \in HttpSearches, cols \in HttpColumnLists, sort \in HttpSorts,
          order \in HttpOrders, page \in HttpPageArgs, limit \in HttpLimitArgs :
          HttpGetData([search |-> search, columns |-> cols, sort |-> sort,
                       order |-> order, page |-> page, limit |-> limit])
    \/ \E id \in HttpIds, idColumn \in HttpSorts : HttpGetById(id, idColumn)
    \/ \E columnsParam \in HttpColumnLists : HttpGetStats(columnsParam)
    \/ \E column \in HttpNames : HttpGetUnique(column)

SpecHttp == InitHttp /\ [][NextHttp]_vars

\* the column names a completed request carries
C21_Named ==
    CASE qin.op = "GET /data" ->
            (IF qin.query.sort = "" THEN {} ELSE {qin.query.sort})
            \cup {ColumnName(c) : c \in Range(ValidColumns(ColumnArray(ColumnsString(qin.query.columns))))}
      [] qin.op = "GET /data/:id" -> IF qin.idColumn = "" THEN {} ELSE {qin.idColumn}
      [] qin.op = "GET /stats" -> Range(StatsColumns(qin.columns))
      [] qin.op = "GET /unique/:column" -> {qin.column}
      [] OTHER -> {}

C21_Invalid == C21_Named \ Range(columns)

\* C21: on a loaded, non-empty dataset every endpoint answers a request that names a
\* column outside the current column set with a bad request that names an invalid
\* column and lists the valid columns
C21_InvalidColumnIsBadRequest ==
    (qpc = "done" /\ Len(heap[data]) > 0 /\ C21_Invalid # {}) =>
        /\ qout.status = 400
        /\ qout.column \in C21_Invalid
        /\ qout.availableColumns = columns

\* the listing the claim describes: search, then sort, then project, then paginate
C25_SortedThenProjected ==
    LET query == qin.query
        rows == heap[data]
        searched == IF IsFalsyString(query.search) THEN rows ELSE searchCsv(rows, query.search)
        sorted == sortCsv(searched, query.sort, IF query.order = "desc" THEN "desc" ELSE "asc")
        projected == StringKeyed(filterColumns(CharKeyed(sorted), ColumnsString(query.columns)))
    IN  paginateCsv(projected, Num(OrElse(ParseInt(query.page), 1)),
                    Num(OrElse(ParseInt(query.limit), 10))).data

\* C25: a listing request with both `sort` and `columns` answers with the rows in the
\* order that sorting the stored rows by the sort column gives, projected and paginated,
\* also when the sort column is not among the projected columns
C25_ProjectionKeepsSortOrder ==
    (/\ qpc = "done"
     /\ qin.op = "GET /data"
     /\ qout.status = 200
     /\ qin.query.sort # ""
     /\ qin.query.columns # <<>>) =>
        qout.data = C25_SortedThenProjected

\* the load whose 'end' handler installed the rows getData() returns now
C22_Producer == CHOOSE id \in TaskIds : tasks[id].installed /\ tasks[id].ref = data

\* C22: whenever the loader holds loaded rows, getMetadata() is not null and reports the
\* filePath, lastModified and fileSize of the load that produced those rows, whatever
\* has happened to the files or to later loads since
C22_MetadataBelongsToHeldSnapshot ==
    (~crashed /\ data # 0) =>
        /\ ~getMetadata.null
        /\ getMetadata.filePath = tasks[C22_Producer].path
        /\ getMetadata.lastModified = StatOf(File(tasks[C22_Producer].content)).mtime
        /\ getMetadata.fileSize = StatOf(File(tasks[C22_Producer].content)).size

\* the load that started last
C23_Newest == nextTask - 1

\* C23: once every load that was started has completed, the loader holds the rows and
\* columns of the load that started last and reports the path those rows came from: a
\* load that started earlier does not overwrite the result of a later one
C23_NewestLoadWins ==
    (/\ ~crashed
     /\ nextTask > 2
     /\ \A id \in 1..C23_Newest : tasks[id].st = "resolved") =>
        /\ heap[data] = heap[tasks[C23_Newest].ref]
        /\ columns = tasks[C23_Newest].cols
        /\ \E id \in 1..C23_Newest : tasks[id].ref = data /\ tasks[id].path = filePath

\* the comparator's answer for the rows i and j of the input
C24_Cmp(i, j) == SortCompare(qin.rows[i], qin.rows[j], qin.column, qin.direction)

C24_PresentRows == {i \in 1..Len(qin.rows) : Present(qin.rows[i])}

\* the input rows in every order
C24_Permutations ==
    {[i \in 1..Len(qin.rows) |-> qin.rows[p[i]]] :
        p \in {f \in [1..Len(qin.rows) -> 1..Len(qin.rows)] :
                  \A i, j \in 1..Len(qin.rows) : f[i] = f[j] => i = j}}

\* C24: over present values the comparator of sortCsv is a consistent ordering: it is
\* transitive, cmp(a,b) and cmp(b,a) have opposite signs, and so rows with
\* pairwise-distinct present keys come out in one order whatever order they went in
C24_ComparatorIsConsistent ==
    SortDone =>
        /\ \A i, j, k \in C24_PresentRows :
               (C24_Cmp(i, j) <= 0 /\ C24_Cmp(j, k) <= 0) => C24_Cmp(i, k) <= 0
        /\ \A i, j \in C24_PresentRows :
               /\ (C24_Cmp(i, j) < 0) = (C24_Cmp(j, i) > 0)
               /\ (C24_Cmp(i, j) = 0) = (C24_Cmp(j, i) = 0)
        /\ (/\ C24_PresentRows = 1..Len(qin.rows)
            /\ \A i, j \in C24_PresentRows : i # j => C24_Cmp(i, j) # 0) =>
               \A rows \in C24_Permutations :
                   [i \in 1..Len(rows) |-> Get(sortCsv(rows, qin.column, qin.direction)[i], "v")]
                       = [i \in 1..Len(qout) |-> Get(qout[i], "v")]

(***************************************************************************)
(* The three utilities that test whether a cell is a number, applied to    *)
(* rows with the ids 1.. in column "id" and, in column "v", cells that are *)
(* empty, white space, numerals or words.                                  *)
(***************************************************************************)
MaxNumericRows == 2

NumericCells == {Str(<<>>), Str(<<" ">>), Str(<<"0">>), Str(<<"1">>), Str(<<"a">>)}

InitNumeric ==
    /\ LoaderUnused
    /\ \E cells \in SeqsUpTo(NumericCells, MaxNumericRows) :
          qin \in {[op |-> "stats", rows |-> SortRows(cells), numericColumns |-> <<"v">>]}
              \cup {[op |-> "sort", rows |-> SortRows(cells), column |-> "v", direction |-> dir] :
                        dir \in {"asc", "desc"}}
              \cup {[op |-> "byId", rows |-> SortRows(cells), id |-> id, idColumn |-> "v"] :
                        id \in {Str(<<"0">>), Str(<<"1">>)}}
    /\ qout = NoQuery
    /\ qpc = "call"

NextNumeric == CallStats \/ CallSort \/ CallById

SpecNumeric == InitNumeric /\ [][NextNumeric]_vars

\* a cell that is the empty string or white space only
C26_Blank(v) == v.t = "str" /\ Trim(v.s) = <<>>

\* a cell that holds a numeral
C26_Numeral(v) == v.t = "str" /\ Trim(v.s) # <<>> /\ AllDigits(Trim(v.s))

C26_Cell(i) == Get(qin.rows[i], "v")

\* C26: a cell that is empty or white space only is not a number for any query:
\* getColumnStats counts the numerals of the column only, sortCsv compares a blank cell
\* with a numeral as strings, getRowById with id '0' does not return a row whose id
\* cell is blank, and the numeric tests of the operations agree on every cell
C26_BlankCellIsNotANumber ==
    (qpc = "done") =>
        /\ (qin.op = "stats") =>
               LET numerals == {i \in 1..Len(qin.rows) : C26_Numeral(C26_Cell(i))} IN
               IF numerals = {} THEN qout = <<>>
               ELSE /\ Len(qout) = 1
                    /\ qout[1].v.count = Cardinality(numerals)
                    /\ \E i \in numerals : qout[1].v.min = NumberOf(C26_Cell(i)).n
        /\ (qin.op = "sort") =>
               \A i, j \in 1..Len(qin.rows) :
                   (C26_Blank(C26_Cell(i)) /\ C26_Numeral(C26_Cell(j))) =>
                       /\ SortCompare(qin.rows[i], qin.rows[j], qin.column, qin.direction)
                              = CompareStrings(C26_Cell(i), C26_Cell(j), qin.direction)
                       /\ (PositionIn(qout, qin.rows[i]) < PositionIn(qout, qin.rows[j]))
                              = (CompareStrings(C26_Cell(i), C26_Cell(j), qin.direction) < 0)
        /\ (qin.op = "byId" /\ qin.id = Str(<<"0">>) /\ qout.found) =>
               ~C26_Blank(Get(qout.row, "v"))
        /\ \A i \in 1..Len(qin.rows) :
               ToNumber(C26_Cell(i)).nan = NumberOf(C26_Cell(i)).nan

\* the watcher has been stopped and not started again
C27_Stopped == watcher = NoPath /\ onDataChange # NoCallback

\* a step taken while the watcher is stopped invokes no callback and replaces neither
\* the rows nor the columns
C27_Step ==
    (C27_Stopped /\ C27_Stopped') =>
        /\ calls' = calls
        /\ data' = data
        /\ columns' = columns

\* C27: once stopWatching() has returned, the callback is not invoked again and no
\* reload made by the watcher replaces the rows and columns, a reload in flight at the
\* time of the call included; the loader has one watcher at most
C27_StoppingIsFinal == [][C27_Step]_vars

====
